---- MODULE Spec2Model ----
(***************************************************************************)
(* syncrepo: a model of the concurrent repository scanner                  *)
(* (FindGitReposParallel, find-repos.go) and of the tiered pull executor   *)
(* (pullGitRepos, main.go).                                                *)
(*                                                                         *)
(* Two specifications share the module:                                    *)
(*   Spec      one call of FindGitReposParallel on a bounded directory     *)
(*             tree with W workers;                                        *)
(*   PullSpec  one call of pullGitRepos on a bounded list of repositories, *)
(*             the external git commands succeeding or failing freely;     *)
(*   MainSpec  main from parsePath to the end of the scan;                 *)
(*   CapSpec   Spec with the capacity of the job queue scaled down to the  *)
(*             size of the bounded trees;                                  *)
(*   UrlSpec   one call of getGitRepos on a bounded list of directories.   *)
(***************************************************************************)
EXTENDS Integers, Sequences, FiniteSets

(* ------------------------------ bounds -------------------------------- *)

\* Largest number of directories of a scanned tree (the root included).
MaxDirs == 3

\* Largest worker count W of a scan.
MaxWorkers == 2

\* Largest number of directories of a tree whose listing fails.
MaxUnreadable == 1

\* Largest number of directories holding a regular FILE named ".git".
MaxGitFiles == 1

\* Largest number of repositories handed to pullGitRepos.
MaxRepos == 3

\* Largest capacity of the job queue in the scans with a scaled-down queue.
MaxCap == 2

\* Largest number of directories handed to getGitRepos.
MaxUrlDirs == 3

(* ------------------------- program constants -------------------------- *)

\* jobs := make(chan job, 4096)
JobsCap == 4096

(* ----------------------------- scanner state -------------------------- *)

VARIABLES
    nDirs,       \* the tree has directories 1..nDirs, 1 is the root passed in
    parentOf,    \* parentOf[d], d \in 2..nDirs: the directory d is an entry of
    gitDirs,     \* directories with an entry ".git" that is a directory
    gitFiles,    \* directories with an entry ".git" that is a regular file
    unreadable,  \* directories for which os.ReadDir returns an error
    workers,     \* the parameter workers (W)
    cap,         \* cap(jobs): the capacity the channel jobs was made with
    jobs,        \* the buffered channel jobs: the paths queued in it
    closed,      \* close(jobs) has run
    active,      \* the atomic counter active
    results,     \* the slice results
    pc,          \* pc[w]: where worker w stands in its loop
    job,         \* job[w]: j.path of the job worker w is processing
    todo,        \* todo[w]: the sub-directories worker w has still to enqueue
    pcMain,      \* where FindGitReposParallel itself stands
    panicked,    \* the run-time panic that ended the process, or "none"
    listed,      \* every directory os.ReadDir was called on (observation)
    counted,     \* observation: the children active.Add(1) has run for
    marked,      \* observation: marked[d], the active.Add(-1) run for job d
    flagPath,    \* flags.path, in the pieces parsePath looks at
    getwdErr,    \* os.Getwd returns an error
    statErr      \* os.Stat of the parsed path returns an error

scanVars == <<nDirs, parentOf, gitDirs, gitFiles, unreadable, workers, cap, jobs,
              closed, active, results, pc, job, todo, pcMain, panicked, listed,
              counted, marked, flagPath, getwdErr, statErr>>

Root == 1

Dirs == 1..nDirs

Workers == 1..workers

\* The set of the elements of a sequence.
Range(s) == {s[i] : i \in 1..Len(s)}

(* ----------------------- the directory tree --------------------------- *)

\* The sub-directories of d, as os.ReadDir lists them: sorted by name, which
\* the numbering of the directories stands for.
RECURSIVE SubDirsFrom(_, _)
SubDirsFrom(d, i) ==
    IF i > nDirs THEN <<>>
    ELSE IF parentOf[i] = d THEN <<i>> \o SubDirsFrom(d, i + 1)
    ELSE SubDirsFrom(d, i + 1)

SubDirs(d) == SubDirsFrom(d, 2)

\* The proper ancestors of d.
RECURSIVE Ancestors(_)
Ancestors(d) ==
    IF d = Root THEN {} ELSE {parentOf[d]} \cup Ancestors(parentOf[d])

\* d and everything beneath it.
Subtree(d) == {e \in Dirs : e = d \/ d \in Ancestors(e)}

\* The trees of n directories: parents come first and are numbered in
\* breadth-first order, so that every shape of an ordered tree occurs once.
TreeShapes(n) ==
    {f \in [2..n -> 1..n] :
        /\ \A i \in 2..n : f[i] < i
        /\ \A i \in 2..n : \A k \in 2..n : i < k => f[i] <= f[k]}

(* ---------------------------- executor state -------------------------- *)

VARIABLES
    list,        \* the parameter list of pullGitRepos: the repositories
    failedRepos, \* the map failedRepos: repository -> its recorded error
    task,        \* task[r]: where the Tier-0 goroutine of r stands
    pcPull,      \* where pullGitRepos itself stands
    cur,         \* the repository the running Tier-1/Tier-2 pass is at, or 0
    visited,     \* the keys the running range over failedRepos has produced
    sigChan,     \* the number of signals buffered in the channel c (0 or 1)
    sigSeen,     \* observation: where pullGitRepos stood when a signal came
    log,         \* observation: log[r], the commands run on r, in order
    out          \* the lines written with slog: <<message, repository>>

pullVars == <<list, failedRepos, task, pcPull, cur, visited, sigChan, sigSeen,
              log, out>>

(* --------------------------- getGitRepos state ------------------------ *)

VARIABLES
    urlList,     \* the parameter list of getGitRepos: the directories
    urlsLen,     \* len(urls), the length word of the slice header of urls
    urlsArr,     \* the backing array of urls: urlsArr[i] is a string header
    gpc,         \* gpc[g]: where the goroutine of directory g stands
    loaded,      \* loaded[g]: the len(urls) the append of g has read
    pending,     \* pending[g]: the stores the append of g has still to make
    succeeded,   \* observation: the directories whose lookup succeeded
    pcUrl        \* where getGitRepos itself stands

urlVars == <<urlList, urlsLen, urlsArr, gpc, loaded, pending, succeeded, pcUrl>>

vars == <<scanVars, pullVars, urlVars>>

\* The arguments of a scan and the tree it runs on: no step changes them.
input == <<nDirs, parentOf, gitDirs, gitFiles, unreadable, workers, cap,
           flagPath, getwdErr, statErr>>

(* ============================ the scanner ============================= *)

\* FoundGit without the e.IsDir() test: any entry named ".git" matches.
FoundGitAnyEntry(d) == d \in gitDirs \cup gitFiles

\* Lines 36-45: the entries of d hold a DIRECTORY named ".git".
FoundGit(d) == d \in gitDirs

\* ChildJobs without the test of found: a repository root is expanded too.
ChildJobsNoPrune(d) == SubDirs(d)

\* Lines 47-55: the jobs a worker creates for d: none at a repository root,
\* else one for every entry that is a directory.
ChildJobs(d) == IF FoundGit(d) THEN <<>> ELSE SubDirs(d)

\* The trees and worker counts a scan is run on.
ScanInput ==
    /\ nDirs \in 1..MaxDirs
    /\ parentOf \in TreeShapes(nDirs)
    /\ gitDirs \in SUBSET (1..nDirs)
    /\ gitFiles \in {g \in SUBSET ((1..nDirs) \ gitDirs) :
                        Cardinality(g) <= MaxGitFiles}
    /\ unreadable \in {u \in SUBSET (1..nDirs) :
                        Cardinality(u) <= MaxUnreadable}
    /\ workers \in 1..MaxWorkers

\* A path argument that parsePath has accepted.
PathAccepted ==
    /\ flagPath = <<"/srv/repos">>
    /\ getwdErr = FALSE
    /\ statErr = FALSE

\* Lines 15-68: the channel made and empty, the counter zero, no result,
\* every worker started and at its receive; the root not yet sent.
ScanStart ==
    /\ jobs = <<>>
    /\ closed = FALSE
    /\ active = 0
    /\ results = <<>>
    /\ pc = [w \in 1..workers |-> "recv"]
    /\ job = [w \in 1..workers |-> 0]
    /\ todo = [w \in 1..workers |-> <<>>]
    /\ pcMain = "seed"
    /\ panicked = "none"
    /\ listed = {}
    /\ counted = {}
    /\ marked = [d \in 1..nDirs |-> 0]

ScanInit ==
    /\ ScanInput
    /\ PathAccepted
    /\ cap = JobsCap
    /\ ScanStart

\* The state of the executor while a scan runs: pullGitRepos not yet called.
PullIdle ==
    /\ list = {}
    /\ failedRepos = <<>>
    /\ task = <<>>
    /\ pcPull = "idle"
    /\ cur = 0
    /\ visited = {}
    /\ sigChan = 0
    /\ sigSeen = {}
    /\ log = <<>>
    /\ out = {}

\* The state of getGitRepos while it is not called.
UrlIdle ==
    /\ urlList = {}
    /\ urlsLen = 0
    /\ urlsArr = <<>>
    /\ gpc = <<>>
    /\ loaded = <<>>
    /\ pending = <<>>
    /\ succeeded = {}
    /\ pcUrl = "idle"

Init == ScanInit /\ PullIdle /\ UrlIdle

\* The process is alive: no goroutine has panicked.
Alive == panicked = "none"

\* Line 71: jobs <- job{root}.
SeedRoot ==
    /\ Alive
    /\ pcMain = "seed"
    /\ IF closed
         THEN /\ panicked' = "send on closed channel"
              /\ UNCHANGED <<jobs, pcMain>>
         ELSE /\ Len(jobs) < cap
              /\ jobs' = Append(jobs, Root)
              /\ pcMain' = "wait"
              /\ UNCHANGED panicked
    /\ UNCHANGED <<input, pullVars, urlVars,
                   closed, active, results, pc, job, todo, listed, counted, marked>>

\* Lines 25-49: for j := range jobs receives a job; os.ReadDir lists it, the
\* entries are searched for .git (results is appended to under resultsMu) and
\* the children to enqueue are chosen. The listing and the search touch
\* nothing another goroutine reads, so they are one step with the receive.
Recv(w) ==
    /\ Alive
    /\ pc[w] = "recv"
    /\ jobs # <<>>
    /\ job' = [job EXCEPT ![w] = Head(jobs)]
    /\ jobs' = Tail(jobs)
    /\ listed' = listed \cup {Head(jobs)}
    /\ IF Head(jobs) \in unreadable
         THEN /\ pc' = [pc EXCEPT ![w] = "errdone"]
              /\ UNCHANGED <<results, todo>>
         ELSE /\ results' = IF FoundGit(Head(jobs))
                               THEN Append(results, Head(jobs)) ELSE results
              /\ todo' = [todo EXCEPT ![w] = ChildJobs(Head(jobs))]
              /\ pc' = [pc EXCEPT ![w] =
                          IF ChildJobs(Head(jobs)) = <<>> THEN "done" ELSE "add"]
    /\ UNCHANGED <<input, pullVars, urlVars,
                   closed, active, pcMain, panicked, counted,
                   marked>>

\* Lines 25 and 23: the channel is closed and drained, the range ends and
\* the deferred wg.Done() runs.
ExitLoop(w) ==
    /\ Alive
    /\ pc[w] = "recv"
    /\ jobs = <<>>
    /\ closed
    /\ pc' = [pc EXCEPT ![w] = "exited"]
    /\ UNCHANGED <<input, pullVars, urlVars,
                   jobs, closed, active, results, job, todo, pcMain, panicked,
                   listed, counted, marked>>

\* Line 51: active.Add(1) for the next child.
AddActive(w) ==
    /\ Alive
    /\ pc[w] = "add"
    /\ active' = active + 1
    /\ counted' = counted \cup {Head(todo[w])}
    /\ pc' = [pc EXCEPT ![w] = "send"]
    /\ UNCHANGED <<input, pullVars, urlVars,
                   jobs, closed, results, job, todo, pcMain, panicked, listed,
                   marked>>

\* Line 52: jobs <- job{child}. A send on a closed channel panics; a send on
\* a full channel blocks.
SendJob(w) ==
    /\ Alive
    /\ pc[w] = "send"
    /\ IF closed
         THEN /\ panicked' = "send on closed channel"
              /\ UNCHANGED <<jobs, todo, pc>>
         ELSE /\ Len(jobs) < cap
              /\ jobs' = Append(jobs, Head(todo[w]))
              /\ todo' = [todo EXCEPT ![w] = Tail(todo[w])]
              /\ pc' = [pc EXCEPT ![w] =
                          IF Tail(todo[w]) = <<>> THEN "done" ELSE "add"]
              /\ UNCHANGED panicked
    /\ UNCHANGED <<input, pullVars, urlVars,
                   closed, active, results, job, pcMain, listed, counted, marked>>

\* if active.Add(-1) == 0: the decrement and the test of its result.
MarkDone(w) ==
    /\ active' = active - 1
    /\ marked' = [marked EXCEPT ![job[w]] = @ + 1]
    /\ pc' = [pc EXCEPT ![w] = IF active - 1 = 0 THEN "close" ELSE "recv"]
    /\ UNCHANGED <<input, pullVars, urlVars,
                   jobs, closed, results, job, todo, pcMain, panicked, listed,
                   counted>>

\* ErrDone without the decrement: a bare continue.
ErrContinue(w) ==
    /\ Alive
    /\ pc[w] = "errdone"
    /\ pc' = [pc EXCEPT ![w] = "recv"]
    /\ UNCHANGED <<input, pullVars, urlVars, jobs, closed, active, results, job, todo,
                   pcMain, panicked, listed, counted, marked>>

\* Lines 27-28: the listing failed, the job is counted as done.
ErrDone(w) ==
    /\ Alive
    /\ pc[w] = "errdone"
    /\ MarkDone(w)

\* Lines 57-58: mark this job done.
JobDone(w) ==
    /\ Alive
    /\ pc[w] = "done"
    /\ MarkDone(w)

\* Lines 30 and 59: close(jobs). Closing a closed channel panics.
CloseJobs(w) ==
    /\ Alive
    /\ pc[w] = "close"
    /\ IF closed
         THEN /\ panicked' = "close of closed channel"
              /\ UNCHANGED <<closed, pc>>
         ELSE /\ closed' = TRUE
              /\ pc' = [pc EXCEPT ![w] = "recv"]
              /\ UNCHANGED panicked
    /\ UNCHANGED <<input, pullVars, urlVars,
                   jobs, active, results, job, todo, pcMain, listed, counted, marked>>

\* Lines 74-76: wg.Wait() returns once every worker has run wg.Done(). While
\* a worker is blocked in its receive on the open, empty queue this step is
\* not enabled; when all of them are, no step is, and the Go run time ends
\* such a process with "all goroutines are asleep - deadlock!".
WaitDone ==
    /\ Alive
    /\ pcMain = "wait"
    /\ \A w \in Workers : pc[w] = "exited"
    /\ pcMain' = "returned"
    /\ UNCHANGED <<input, pullVars, urlVars,
                   jobs, closed, active, results, pc, job, todo, panicked,
                   listed, counted, marked>>

Next ==
    \/ SeedRoot
    \/ WaitDone
    \/ \E w \in Workers : Recv(w)
    \/ \E w \in Workers : ExitLoop(w)
    \/ \E w \in Workers : AddActive(w)
    \/ \E w \in Workers : SendJob(w)
    \/ \E w \in Workers : ErrDone(w)
    \/ \E w \in Workers : JobDone(w)
    \/ \E w \in Workers : CloseJobs(w)

Spec == Init /\ [][Next]_vars

\* The scan with a job queue of a capacity the bounded trees can fill: the
\* code of line 17 with a smaller number in it.
CapInit ==
    /\ ScanInput
    /\ PathAccepted
    /\ cap \in 1..MaxCap
    /\ ScanStart
    /\ PullIdle
    /\ UrlIdle

CapSpec == CapInit /\ [][Next]_vars

(* ======================= main and parsePath =========================== *)

\* The home directory os.UserHomeDir returns.
Home == "/home/user"

\* Line 238: strings.HasPrefix(path, "~/").
HasTildePrefix(path) == path # <<>> /\ Head(path) = "~/"

\* Line 240: strings.Replace(path, "~/", home, 1): the first piece "~/" is
\* replaced by home, which brings no separator of its own.
ReplaceTilde(path, home) ==
    IF \E i \in 1..Len(path) : path[i] = "~/"
      THEN LET i == CHOOSE k \in 1..Len(path) :
                       path[k] = "~/" /\ \A m \in 1..(k - 1) : path[m] # "~/"
           IN  [path EXCEPT ![i] = home]
      ELSE path

\* What parsePath comes to: the path it returns, or log.Fatalf.
Returns(path) == [fatal |-> FALSE, path |-> path]
Fatal == [fatal |-> TRUE, path |-> <<>>]

\* Lines 232-248: parsePath. For "." the error of os.Getwd is dropped
\* (path, _ = os.Getwd()) and the path that comes with it, the empty string,
\* is returned. Any other path is expanded and handed to os.Stat, whose
\* error ends the process.
parsePath(path, gwErr, stErr) ==
    IF path = <<".">>
      THEN Returns(IF gwErr THEN <<>> ELSE <<"/cwd">>)
      ELSE IF stErr THEN Fatal
           ELSE Returns(IF HasTildePrefix(path)
                          THEN ReplaceTilde(path, Home) ELSE path)

\* The arguments and the environment of a run of main: the path flag, and
\* the outcome of the one system call parsePath makes for it. The empty
\* path that a failed os.Getwd leaves names no directory: os.ReadDir fails
\* for it.
MainInit ==
    /\ ScanInput
    /\ flagPath \in {<<".">>, <<"~/", "repos">>, <<"/srv/repos">>}
    /\ getwdErr \in IF flagPath = <<".">> THEN BOOLEAN ELSE {FALSE}
    /\ statErr \in IF flagPath = <<".">> THEN {FALSE} ELSE BOOLEAN
    /\ parsePath(flagPath, getwdErr, statErr) = Returns(<<>>) =>
          nDirs = 1 /\ unreadable = {Root} /\ gitDirs = {} /\ gitFiles = {}
    /\ cap = JobsCap
    /\ jobs = <<>>
    /\ closed = FALSE
    /\ active = 0
    /\ results = <<>>
    /\ pc = [w \in 1..workers |-> "unstarted"]
    /\ job = [w \in 1..workers |-> 0]
    /\ todo = [w \in 1..workers |-> <<>>]
    /\ pcMain = "parse"
    /\ panicked = "none"
    /\ listed = {}
    /\ counted = {}
    /\ marked = [d \in 1..nDirs |-> 0]
    /\ PullIdle
    /\ UrlIdle

\* main, lines 50-51, and find-repos.go, lines 64-68: parsePath either ends
\* the process or yields the root that FindGitReposParallel is called with,
\* which starts its workers.
ParseAndScan ==
    /\ pcMain = "parse"
    /\ IF parsePath(flagPath, getwdErr, statErr).fatal
         THEN /\ pcMain' = "fatal"
              /\ UNCHANGED pc
         ELSE /\ pcMain' = "seed"
              /\ pc' = [w \in Workers |-> "recv"]
    /\ UNCHANGED <<input, pullVars, urlVars, jobs, closed, active, results, job, todo,
                   panicked, listed, counted, marked>>

MainNext ==
    \/ ParseAndScan
    \/ Next

MainSpec == MainInit /\ [][MainNext]_vars

(* ============================ the executor ============================ *)

\* The state of the scanner while pullGitRepos runs: the scan is over.
ScanIdle ==
    /\ PathAccepted
    /\ nDirs = 1
    /\ parentOf = <<>>
    /\ gitDirs = {}
    /\ gitFiles = {}
    /\ unreadable = {}
    /\ workers = 1
    /\ cap = JobsCap
    /\ jobs = <<>>
    /\ closed = TRUE
    /\ active = 0
    /\ results = <<>>
    /\ pc = <<"exited">>
    /\ job = <<0>>
    /\ todo = <<(<<>>)>>
    /\ pcMain = "returned"
    /\ panicked = "none"
    /\ listed = {}
    /\ counted = {}
    /\ marked = [d \in 1..nDirs |-> 0]

\* RecordFailure that drops the error: the failed pull leaves no entry.
RecordNothing(f, r, err) == f

\* Line 158: failedRepos[dir] = err.
RecordFailure(f, r, err) ==
    [k \in DOMAIN f \cup {r} |-> IF k = r THEN err ELSE f[k]]

\* Delete that removes nothing: a recovered repository keeps its entry.
DeleteNothing(f, r) == f

\* Lines 185 and 207: delete(failedRepos, dir).
Delete(f, r) == [k \in DOMAIN f \ {r} |-> f[k]]

\* RangeNext over the whole list instead of over failedRepos.
RangeNextOfList == list \ visited

\* Lines 173 and 191: the keys a range over failedRepos can produce next: the
\* entries still in the map that the loop has not been at.
RangeNext == DOMAIN failedRepos \ visited

\* The entry the log gets for a command that has ended.
Ran(tier, op, ok) == [tier |-> tier, op |-> op, ok |-> ok]

\* Lines 145-163, the state at the select of line 165: wg.Add(len(list)),
\* the signal channel registered, an empty failedRepos, one goroutine started
\* for every repository.
PullInit ==
    /\ ScanIdle
    /\ UrlIdle
    /\ list \in {1..n : n \in 0..MaxRepos}
    /\ failedRepos = <<>>
    /\ task = [r \in list |-> "ready"]
    /\ pcPull = "select"
    /\ cur = 0
    /\ visited = {}
    /\ sigChan = 0
    /\ sigSeen = {}
    /\ log = [r \in list |-> <<>>]
    /\ out = {}

\* pullGitRepos is running: it has neither returned nor ended the process.
Running == pcPull \notin {"idle", "exited", "returned"}

\* A wait group that never holds wg.Wait() back.
NoneOutstanding == FALSE

\* Some Tier-0 goroutine has not yet run wg.Done().
Outstanding == \E r \in list : task[r] # "done"

\* Line 148: signal.Notify relays an interrupt into c, which buffers one
\* signal; a signal that finds c full is dropped.
Interrupt ==
    /\ Running
    /\ sigChan = 0
    /\ sigChan' = 1
    /\ sigSeen' = sigSeen \cup {<<pcPull, Outstanding>>}
    /\ UNCHANGED <<scanVars, urlVars, out, list, failedRepos, task, pcPull, cur, visited,
                   log>>

\* Lines 154-156 and 214-222: the goroutine of r starts git pull --depth=1.
TaskStart(r) ==
    /\ Running
    /\ task[r] = "ready"
    /\ task' = [task EXCEPT ![r] = "running"]
    /\ out' = out \cup {<<"pulling dir", r>>}
    /\ UNCHANGED <<scanVars, urlVars, list, failedRepos, pcPull, cur, visited, sigChan,
                   sigSeen, log>>

\* Lines 155-161 and 222-227: the pull of r ends; a failure is recorded in
\* failedRepos under mu; the deferred wg.Done() runs.
TaskFinish(r, ok) ==
    /\ Running
    /\ task[r] = "running"
    /\ task' = [task EXCEPT ![r] = "done"]
    /\ failedRepos' = IF ok THEN failedRepos
                      ELSE RecordFailure(failedRepos, r, "pull")
    /\ log' = [log EXCEPT ![r] = Append(@, Ran(0, "pull", ok))]
    /\ out' = out \cup {<<IF ok THEN "pulled dir"
                              ELSE "error in pulling git repo for dir", r>>}
    /\ UNCHANGED <<scanVars, urlVars, list, pcPull, cur, visited, sigChan, sigSeen>>

\* Lines 165-169: the select. A signal already in c ends the process with
\* os.Exit(1); with c empty the default case is taken. os.Exit ends the
\* goroutines where they stand and signals no child process: a git started by
\* a goroutine (task[r] = "running") runs on after the exit.
Select ==
    /\ pcPull = "select"
    /\ IF sigChan > 0
         THEN /\ sigChan' = sigChan - 1
              /\ pcPull' = "exited"
         ELSE /\ pcPull' = "wait"
              /\ UNCHANGED sigChan
    /\ out' = IF sigChan > 0
                 THEN out \cup {<<"Received interrupt signal, terminating...", 0>>}
                 ELSE out
    /\ UNCHANGED <<scanVars, urlVars, list, failedRepos, task, cur, visited, sigSeen,
                   log>>

\* Line 170: wg.Wait() returns once every goroutine has run wg.Done().
Wait ==
    /\ pcPull = "wait"
    /\ ~ Outstanding
    /\ pcPull' = "tier1"
    /\ visited' = {}
    /\ UNCHANGED <<scanVars, urlVars, out, list, failedRepos, task, cur, sigChan, sigSeen,
                   log>>

\* Lines 173-178: the range yields the next failed repository and
\* git pull --rebase --depth=1 is started on it.
RebaseStart(r) ==
    /\ pcPull = "tier1"
    /\ r \in RangeNext
    /\ cur' = r
    /\ visited' = visited \cup {r}
    /\ pcPull' = "rebase"
    /\ out' = out \cup {<<"Retrying pull with rebase for dir", r>>}
    /\ UNCHANGED <<scanVars, urlVars, list, failedRepos, task, sigChan, sigSeen, log>>

\* Lines 180-187: the rebase pull ends; a success deletes the entry, a
\* failure is logged and leaves the map as it is.
RebaseFinish(ok) ==
    /\ pcPull = "rebase"
    /\ failedRepos' = IF ok THEN Delete(failedRepos, cur) ELSE failedRepos
    /\ log' = [log EXCEPT ![cur] = Append(@, Ran(1, "rebase", ok))]
    /\ pcPull' = "tier1"
    /\ cur' = 0
    /\ out' = out \cup {<<IF ok THEN "Successfully pulled with rebase for dir"
                              ELSE "error in pulling with rebase for dir",
                           cur>>}
    /\ UNCHANGED <<scanVars, urlVars, list, task, visited, sigChan, sigSeen>>

\* Lines 173 and 188: the range over failedRepos is exhausted.
Tier1End ==
    /\ pcPull = "tier1"
    /\ RangeNext = {}
    /\ pcPull' = "tier2"
    /\ visited' = {}
    /\ UNCHANGED <<scanVars, urlVars, out, list, failedRepos, task, cur, sigChan, sigSeen,
                   log>>

\* Lines 191-195: the range yields the next failed repository and
\* git reset --hard is started on it.
ResetStart(r) ==
    /\ pcPull = "tier2"
    /\ r \in RangeNext
    /\ cur' = r
    /\ visited' = visited \cup {r}
    /\ pcPull' = "reset"
    /\ out' = out \cup {<<"Retrying pull with reset for dir", r>>}
    /\ UNCHANGED <<scanVars, urlVars, list, failedRepos, task, sigChan, sigSeen, log>>

\* ResetFinish without the continue of line 199: the pull is started after a
\* failed reset too.
ResetFinishNoContinue(ok) ==
    /\ pcPull = "reset"
    /\ log' = [log EXCEPT ![cur] = Append(@, Ran(2, "reset", ok))]
    /\ pcPull' = "pull2"
    /\ out' = out \cup {<<IF ok THEN "pulling dir"
                              ELSE "error in resetting git for dir", cur>>}
    /\ UNCHANGED <<scanVars, urlVars, list, failedRepos, task, cur, visited, sigChan,
                   sigSeen>>

\* Lines 197-202: the reset ends; on a failure the loop continues with the
\* next repository, on a success runCommand starts the pull.
ResetFinish(ok) ==
    /\ pcPull = "reset"
    /\ log' = [log EXCEPT ![cur] = Append(@, Ran(2, "reset", ok))]
    /\ pcPull' = IF ok THEN "pull2" ELSE "tier2"
    /\ cur' = IF ok THEN cur ELSE 0
    /\ out' = out \cup {<<IF ok THEN "pulling dir"
                              ELSE "error in resetting git for dir", cur>>}
    /\ UNCHANGED <<scanVars, urlVars, list, failedRepos, task, visited, sigChan,
                   sigSeen>>

\* Lines 202-209: the pull after the reset ends; a success deletes the entry.
PullFinish(ok) ==
    /\ pcPull = "pull2"
    /\ failedRepos' = IF ok THEN Delete(failedRepos, cur) ELSE failedRepos
    /\ log' = [log EXCEPT ![cur] = Append(@, Ran(2, "pull", ok))]
    /\ pcPull' = "tier2"
    /\ cur' = 0
    /\ out' = out \cup
                 IF ok THEN {<<"pulled dir", cur>>,
                             <<"Successfully pulled after reset for dir", cur>>}
                 ELSE {<<"error in pulling after reset for dir", cur>>}
    /\ UNCHANGED <<scanVars, urlVars, list, task, visited, sigChan, sigSeen>>

\* Lines 191 and 210-211: the range is exhausted and pullGitRepos returns.
Tier2End ==
    /\ pcPull = "tier2"
    /\ RangeNext = {}
    /\ pcPull' = "returned"
    /\ UNCHANGED <<scanVars, urlVars, out, list, failedRepos, task, cur, visited, sigChan,
                   sigSeen, log>>

PullNext ==
    \/ Interrupt
    \/ \E r \in list : TaskStart(r)
    \/ \E r \in list, ok \in BOOLEAN : TaskFinish(r, ok)
    \/ Select
    \/ Wait
    \/ \E r \in list : RebaseStart(r)
    \/ \E ok \in BOOLEAN : RebaseFinish(ok)
    \/ Tier1End
    \/ \E r \in list : ResetStart(r)
    \/ \E ok \in BOOLEAN : ResetFinish(ok)
    \/ \E ok \in BOOLEAN : PullFinish(ok)
    \/ Tier2End

PullSpec == PullInit /\ [][PullNext]_vars

(* ============================ getGitRepos ============================= *)

\* The string header a slot of the backing array holds: the data pointer and
\* the length of the output of the lookup of directory g.
UrlOf(g) == [ptr |-> g, len |-> g]

\* A slot make() has zeroed: the empty string.
EmptyString == [ptr |-> 0, len |-> 0]

\* main.go, lines 120-136, the state at wg.Wait(): urls made with length 0
\* and capacity len(list), wg.Add(len(list)), one goroutine started for every
\* directory.
UrlInit ==
    /\ ScanIdle
    /\ PullIdle
    /\ urlList \in {1..n : n \in 0..MaxUrlDirs}
    /\ urlsLen = 0
    /\ urlsArr = [i \in urlList |-> EmptyString]
    /\ gpc = [g \in urlList |-> "lookup"]
    /\ loaded = [g \in urlList |-> 0]
    /\ pending = [g \in urlList |-> {}]
    /\ succeeded = {}
    /\ pcUrl = "wait"

\* Lines 128-132: git config --get remote.origin.url ends; on an error the
\* goroutine logs, returns and runs the deferred wg.Done().
Lookup(g, ok) ==
    /\ gpc[g] = "lookup"
    /\ gpc' = [gpc EXCEPT ![g] = IF ok THEN "load" ELSE "done"]
    /\ succeeded' = IF ok THEN succeeded \cup {g} ELSE succeeded
    /\ UNCHANGED <<scanVars, pullVars, urlList, urlsLen, urlsArr, loaded,
                   pending, pcUrl>>

\* Line 134, urls = append(urls, string(output)), first part: the slice
\* header of the captured variable urls is read with no lock held. The
\* capacity suffices, so the append stores in place: the new length into the
\* header and the two words of the string into the slot after the old length.
LoadUrls(g) ==
    /\ gpc[g] = "load"
    /\ loaded' = [loaded EXCEPT ![g] = urlsLen]
    /\ pending' = [pending EXCEPT ![g] = {"len", "ptr", "slen"}]
    /\ gpc' = [gpc EXCEPT ![g] = "store"]
    /\ UNCHANGED <<scanVars, pullVars, urlList, urlsLen, urlsArr, succeeded,
                   pcUrl>>

\* One store of the append of g is made; after the last one the goroutine
\* returns and the deferred wg.Done() runs. The stores are plain memory
\* writes that no lock orders: they happen in any order, interleaved with
\* those of the other goroutines.
Stored(g, word) ==
    /\ gpc[g] = "store"
    /\ word \in pending[g]
    /\ pending' = [pending EXCEPT ![g] = @ \ {word}]
    /\ gpc' = [gpc EXCEPT ![g] = IF pending[g] = {word} THEN "done" ELSE "store"]

\* Line 134: the length word of urls is written, one more than the length read.
StoreLen(g) ==
    /\ Stored(g, "len")
    /\ urlsLen' = loaded[g] + 1
    /\ UNCHANGED <<scanVars, pullVars, urlList, urlsArr, loaded, succeeded,
                   pcUrl>>

\* Line 134: the data pointer of the string is written into the slot.
StoreElemPtr(g) ==
    /\ Stored(g, "ptr")
    /\ urlsArr' = [urlsArr EXCEPT ![loaded[g] + 1].ptr = g]
    /\ UNCHANGED <<scanVars, pullVars, urlList, urlsLen, loaded, succeeded,
                   pcUrl>>

\* Line 134: the length of the string is written into the slot.
StoreElemLen(g) ==
    /\ Stored(g, "slen")
    /\ urlsArr' = [urlsArr EXCEPT ![loaded[g] + 1].len = g]
    /\ UNCHANGED <<scanVars, pullVars, urlList, urlsLen, loaded, succeeded,
                   pcUrl>>

\* Lines 138-139: wg.Wait() returns once every goroutine has run wg.Done(),
\* and getGitRepos returns urls.
UrlWaitDone ==
    /\ pcUrl = "wait"
    /\ \A g \in urlList : gpc[g] = "done"
    /\ pcUrl' = "returned"
    /\ UNCHANGED <<scanVars, pullVars, urlList, urlsLen, urlsArr, gpc, loaded,
                   pending, succeeded>>

UrlNext ==
    \/ \E g \in urlList, ok \in BOOLEAN : Lookup(g, ok)
    \/ \E g \in urlList : LoadUrls(g)
    \/ \E g \in urlList : StoreLen(g)
    \/ \E g \in urlList : StoreElemPtr(g)
    \/ \E g \in urlList : StoreElemLen(g)
    \/ UrlWaitDone

UrlSpec == UrlInit /\ [][UrlNext]_vars

(* ====================== properties of the scanner ===================== *)

\* The repository roots of the tree: the directories with a .git
\* sub-directory that lie beneath no other such directory.
RepoRoots == {d \in Dirs : d \in gitDirs /\ Ancestors(d) \cap gitDirs = {}}

\* The scan has come to rest: no goroutine can take a step.
ScanStopped == ~ ENABLED Next

C2_ScanReturns == pcMain = "returned" \/ ENABLED Next

\* C3: when the root itself holds a .git sub-directory, the scan ends by
\* returning the one-element result {root}, having listed no other directory.
C3_RootRepoSingleton ==
    (Root \in gitDirs /\ Root \notin unreadable /\ ScanStopped) =>
        /\ pcMain = "returned"
        /\ results = <<Root>>
        /\ listed = {Root}

\* C4: the Active Counter is never negative.
C4_ActiveNeverNegative == active >= 0

\* C5: once FindGitReposParallel has returned, the Active Counter is zero and
\* every worker has exited.
C5_ReturnedCounterZero ==
    pcMain = "returned" =>
        /\ active = 0
        /\ \A w \in Workers : pc[w] = "exited"

\* C6: when the scan has met sub-directories that cannot be listed, it still
\* ends by returning, and its result is the result for the readable tree less
\* the repository roots in the unreadable directories' own subtrees.
C6_UnreadableOnlyOwnSubtree ==
    (/\ unreadable # {}
     /\ unreadable \subseteq listed
     /\ Root \notin unreadable
     /\ ScanStopped) =>
        /\ pcMain = "returned"
        /\ Range(results) =
              {d \in RepoRoots : \A u \in unreadable : d \notin Subtree(u)}

\* C14: while a worker has counted a child job and not yet sent it, the
\* job queue is not closed and the Active Counter is not zero.
C14_ChildInFlightKeepsQueueOpen ==
    \A w \in Workers : pc[w] = "send" => ~ closed /\ active # 0

\* Worker w is still working on job d: it has received it and has not yet
\* run the decrement for it.
Processing(w, d) ==
    job[w] = d /\ pc[w] \in {"add", "send", "done", "errdone"}

\* The jobs that have been sent on the queue.
Sent == Range(jobs) \cup listed

\* C15: the Active Counter is decremented exactly once for a received job:
\* not before its processing (unreadable, found-as-root or expanded) is over,
\* and once as soon as it is; and every child job was counted before it was
\* sent on the queue.
C15_OneDecrementPerJob ==
    /\ \A d \in Dirs :
          marked[d] = IF d \in listed /\ ~ \E w \in Workers : Processing(w, d)
                        THEN 1 ELSE 0
    /\ \A d \in Sent : d # Root => d \in counted

\* C15 witness: a scan has returned after an unreadable directory, a
\* repository root and an expanded directory were each decremented for.
C15_Witness ==
    /\ pcMain = "returned"
    /\ \E d \in listed : d \in unreadable
    /\ \E d \in listed : d \notin unreadable /\ d \in gitDirs
    /\ \E d \in listed : d \notin unreadable /\ ChildJobs(d) # <<>>
    /\ \A d \in listed : marked[d] = 1

\* The directories a job exists for, or is about to: sent, counted, or still
\* on a worker's list of children to enqueue.
Enqueued ==
    Sent \cup counted \cup UNION {Range(todo[w]) : w \in Workers}

\* C16: descent is pruned at repository roots: no directory beneath a
\* reported root is ever made a job, sent or listed. (The .git directory of
\* a root is one of the entries that get no job: a directory that has one is
\* a root.)
C16_PrunedBelowRepoRoots ==
    \A r \in Range(results) :
        \A d \in Subtree(r) \ {r} : d \notin Enqueued

\* C16 witness: a scan has returned a root that has sub-directories, one of
\* them a repository itself.
C16_Witness ==
    /\ pcMain = "returned"
    /\ \E r \in Range(results) :
          \E d \in Subtree(r) \ {r} : d \in gitDirs

\* The job of directory d, once a worker has it, enqueues children.
WillEnqueue(d) == d \notin unreadable /\ ChildJobs(d) # <<>>

\* C19: no child job is sent on the closed queue: while the queue is closed
\* no worker stands before a send of lines 51-52 and no queued job will
\* still enqueue children.
C19_NoSendAfterClose ==
    /\ panicked # "send on closed channel"
    /\ closed =>
          /\ \A w \in Workers : pc[w] \notin {"add", "send"}
          /\ \A d \in Range(jobs) : ~ WillEnqueue(d)

\* Worker w is blocked in the send of line 52: the queue is open and full.
BlockedSending(w) ==
    pc[w] = "send" /\ ~ closed /\ Len(jobs) >= cap

\* C20: with a bounded job queue whose only producers and only consumers
\* are the workers, the scan never reaches a state in which every worker is
\* blocked sending a child job on the full queue.
C20_NeverAllBlockedSending ==
    ~ (Alive /\ \A w \in Workers : BlockedSending(w))

(* ====================== properties of the executor ==================== *)

\* The command (tier, op) has ended on r with the outcome ok.
Has(r, tier, op, ok) ==
    \E i \in 1..Len(log[r]) : log[r][i] = Ran(tier, op, ok)

\* How often the command (tier, op) has ended on r.
Count(r, tier, op) ==
    Cardinality({i \in 1..Len(log[r]) :
                    log[r][i].tier = tier /\ log[r][i].op = op})

\* A command of the given tier has been started on r.
Touched(r, tier) ==
    \/ \E i \in 1..Len(log[r]) : log[r][i].tier = tier
    \/ tier = 1 /\ cur = r /\ pcPull = "rebase"
    \/ tier = 2 /\ cur = r /\ pcPull \in {"reset", "pull2"}

\* C7: a tier's command is started on a repository only when every less
\* invasive tier was tried on it and failed: the rebase pull only after a
\* failed Tier-0 pull and no successful one, the reset and the pull after it
\* only after a failed Tier-0 pull and a failed, never a successful, rebase.
C7_EscalateOnlyAfterFailure ==
    \A r \in list :
        /\ Touched(r, 1) =>
              Has(r, 0, "pull", FALSE) /\ ~ Has(r, 0, "pull", TRUE)
        /\ Touched(r, 2) =>
              /\ Has(r, 0, "pull", FALSE) /\ ~ Has(r, 0, "pull", TRUE)
              /\ Has(r, 1, "rebase", FALSE) /\ ~ Has(r, 1, "rebase", TRUE)

\* C7 witness: a run has ended in which one repository succeeded in Tier 0,
\* one in Tier 1 and one was taken to Tier 2.
C7_Witness ==
    /\ pcPull = "returned"
    /\ \E r \in list : Has(r, 0, "pull", TRUE)
    /\ \E r \in list : Has(r, 1, "rebase", TRUE)
    /\ \E r \in list : Touched(r, 2)

\* C8: a repository whose Tier-0 pull and rebase failed and whose reset and
\* pull after it succeeded is out of the Failure Record, and git reset --hard
\* has run on it exactly once.
C8_Tier2RecoveryOneReset ==
    \A r \in list :
        (/\ Has(r, 0, "pull", FALSE)
         /\ Has(r, 1, "rebase", FALSE)
         /\ Has(r, 2, "reset", TRUE)
         /\ Has(r, 2, "pull", TRUE)) =>
            /\ r \notin DOMAIN failedRepos
            /\ Count(r, 2, "reset") = 1

\* C8 witness: pullGitRepos has returned after recovering a repository in
\* Tier 2.
C8_Witness ==
    /\ pcPull = "returned"
    /\ \E r \in list :
          /\ Has(r, 0, "pull", FALSE)
          /\ Has(r, 1, "rebase", FALSE)
          /\ Has(r, 2, "reset", TRUE)
          /\ Has(r, 2, "pull", TRUE)

\* Some tier's attempt on r succeeded: the Tier-0 pull, the rebase pull, or
\* the pull after the reset.
Recovered(r) ==
    \/ Has(r, 0, "pull", TRUE)
    \/ Has(r, 1, "rebase", TRUE)
    \/ Has(r, 2, "pull", TRUE)

\* C9: when pullGitRepos has run all its tiers and returned, the Failure
\* Record holds exactly the repositories of the list on which no tier's
\* attempt succeeded.
C9_FailureRecordIsStillFailing ==
    pcPull = "returned" =>
        DOMAIN failedRepos = {r \in list : ~ Recovered(r)}

\* C9 witness: a run has returned with one repository recovered and another
\* still failing after a successful reset.
C9_Witness ==
    /\ pcPull = "returned"
    /\ \E r \in list : Recovered(r)
    /\ \E r \in list : ~ Recovered(r) /\ Has(r, 2, "reset", TRUE)

\* C10: once an interrupt has been delivered while a Tier-0 task was
\* outstanding, pullGitRepos does not get past its wait: it never goes on to
\* Tier 1 with the signal unread.
C10_InterruptDuringWaitExits ==
    (\E s \in sigSeen : s[2]) => pcPull \in {"select", "wait", "exited"}

\* C11: when an interrupt has ended the process, no git process started by a
\* Tier-0 task is left running.
C11_ExitKillsChildren ==
    pcPull = "exited" => \A r \in list : task[r] # "running"

\* The lines that name r in an account of the failures written once Tier 2
\* is over: pullGitRepos has no statement that writes one.
Summary(r) == {m \in out : m[2] = r /\ m[1] = "summary of failed repositories"}

\* C12: when pullGitRepos has returned after Tier 2, every repository still
\* in the Failure Record has been named in a summary written at the end.
C12_SummaryOfStillFailing ==
    pcPull = "returned" => \A r \in DOMAIN failedRepos : Summary(r) # {}

\* The failed commands of r, as positions in its log.
Failures(r) == {i \in 1..Len(log[r]) : ~ log[r][i].ok}

\* C17: the Failure Record maps a repository to the error of the most recent
\* failed attempt on it; after a failed rebase pull that is the Tier-1 error.
C17_RecordHoldsLatestError ==
    \A r \in DOMAIN failedRepos :
        Failures(r) # {} =>
            LET last == CHOOSE i \in Failures(r) : \A k \in Failures(r) : k <= i
            IN  failedRepos[r] = log[r][last].op

\* A Tier-1 or Tier-2 command of pullGitRepos is running.
SequentialOpRunning == pcPull \in {"rebase", "reset", "pull2"}

\* C18: Tiers 1 and 2 are strictly sequential: a Tier-1 or Tier-2 command
\* has run or runs only with every Tier-0 task finished, a Tier-2 command
\* only with a finished rebase pull for every repository whose Tier-0 pull
\* failed, and a running Tier-1 or Tier-2 command is the only command running.
C18_TiersSequential ==
    /\ (SequentialOpRunning \/ \E r \in list : Touched(r, 1) \/ Touched(r, 2))
          => \A r \in list : task[r] = "done"
    /\ (pcPull \in {"reset", "pull2"} \/ \E r \in list : Touched(r, 2))
          => /\ pcPull # "rebase"
             /\ \A r \in list :
                   Has(r, 0, "pull", FALSE) => Count(r, 1, "rebase") = 1
    /\ SequentialOpRunning
          => /\ cur \in list
             /\ \A r \in list : task[r] # "running"

C18_Witness ==
    /\ pcPull = "pull2"
    /\ Cardinality(DOMAIN failedRepos) >= 2
    /\ \E r \in list : Has(r, 0, "pull", TRUE)

\* C21: when git reset --hard fails for a repository in Tier 2, the pull is
\* not retried for it, its entry of the Failure Record stays as it was, and
\* the loop goes on: pullGitRepos returns only with every repository that
\* is still recorded taken up by Tier 2.
C21_ResetFailureSkipsPull ==
    /\ \A r \in list :
          Has(r, 2, "reset", FALSE) =>
              /\ Count(r, 2, "pull") = 0
              /\ ~ (cur = r /\ pcPull = "pull2")
              /\ r \in DOMAIN failedRepos
              /\ failedRepos[r] = "pull"
    /\ pcPull = "returned" =>
          \A r \in DOMAIN failedRepos : Count(r, 2, "reset") = 1

C21_Witness ==
    /\ pcPull = "returned"
    /\ \E r \in list : Has(r, 2, "reset", FALSE)
    /\ \E r \in list : Has(r, 2, "pull", TRUE)
    /\ \E r \in list : Has(r, 2, "pull", FALSE)

(* ===================== properties of getGitRepos ====================== *)

\* The slice getGitRepos returns: the first len(urls) slots of the array.
ReturnedUrls == [i \in 1..urlsLen |-> urlsArr[i]]

\* C22: getGitRepos returns exactly one entry for every directory whose
\* lookup succeeded, whatever the interleaving of the goroutines.
C22_OneUrlPerSuccessfulLookup ==
    pcUrl = "returned" =>
        \A g \in succeeded :
            Cardinality({i \in 1..Len(ReturnedUrls) :
                            ReturnedUrls[i] = UrlOf(g)}) = 1

(* ======================== properties of main ========================== *)

\* C13: when the path is invalid (os.Stat fails) or the working directory
\* cannot be determined (the path is "." and os.Getwd fails), the program
\* aborts in parsePath: no scanner worker and no pull is ever started.
C13_BadPathAbortsBeforeWork ==
    ((flagPath # <<".">> /\ statErr) \/ (flagPath = <<".">> /\ getwdErr)) =>
        /\ pcMain \in {"parse", "fatal"}
        /\ \A w \in Workers : pc[w] = "unstarted"
        /\ pcPull = "idle"

====
